---- MODULE Spec2Model ----
(***************************************************************************)
(* The notebook ESO_How_to_query_for_reduced_data.ipynb as a state machine. *)
(* The state is the kernel's namespace (dp_id, origfile, ivorn, pos, sr,    *)
(* query, res), the position of the run in the sequence of code cells, the  *)
(* exception that stopped it, and the requests the TAP endpoint received.   *)
(* A text is a sequence of one-character strings, so that formatting,       *)
(* quoting and parsing act on characters as the Python code and the ADQL    *)
(* service do.                                                              *)
(***************************************************************************)
EXTENDS Integers, Sequences, FiniteSets, TLC

VARIABLES pc, tapobs, dp_id, origfile, ivorn, pos, sr, query, res, err, sent

vars == <<pc, tapobs, dp_id, origfile, ivorn, pos, sr, query, res, err, sent>>

(***************************************************************************)
(* Bounds of the model.                                                     *)
(***************************************************************************)
\* longest identifier / file name drawn over IdAlphabet
MaxIdLen == 2
\* most rows the service answers with
MaxRows == 2

(***************************************************************************)
(* The query texts of the code cells.                                       *)
(***************************************************************************)

\* the TAP endpoint
ESO_TAP_OBS ==
    <<"h","t","t","p",":","/","/","a","r","c","h","i","v","e",".","e","s","o",".","o">>
 \o <<"r","g","/","t","a","p","_","o","b","s">>

\* dp_id = 'ADP.2013-12-10T16:12:17.697'
DP_ID ==
    <<"A","D","P",".","2","0","1","3","-","1","2","-","1","0","T","1","6",":","1","2">>
 \o <<":","1","7",".","6","9","7">>

\* origfile = 'UV_SFLX_...fits'
ORIGFILE ==
    <<"U","V","_","S","F","L","X","_","9","8","1","9","0","8","_","2","0","1","3","-">>
 \o <<"1","0","-","3","1","T","0","2",":","0","9",":","0","9",".","3","2","2","_","B">>
 \o <<"L","U","3","9","0","d","1","_","2","x","2","_","1","1",".","f","i","t","s">>

\* 'ivo://eso.org/origfile?' + origfile
IVORN_PREFIX ==
    <<"i","v","o",":","/","/","e","s","o",".","o","r","g","/","o","r","i","g","f","i">>
 \o <<"l","e","?">>

\* query by dataset identifier: the format string before % (dp_id)
IdentifierTemplate ==
    <<"S","E","L","E","C","T"," ","*","\n">>
 \o <<"F","R","O","M"," ","i","v","o","a",".","O","b","s","C","o","r","e","\n">>
 \o <<"W","H","E","R","E"," ","d","p","_","i","d"," ","="," ","'","%","s","'">>

\* query by data provider file name: the format string before % (ivorn)
OrigfileTemplate ==
    <<"S","E","L","E","C","T"," ","*","\n">>
 \o <<"F","R","O","M"," ","i","v","o","a",".","O","b","s","C","o","r","e","\n">>
 \o <<"W","H","E","R","E"," ","o","b","s","_","c","r","e","a","t","o","r","_","d","i">>
 \o <<"d"," ","="," ","'","%","s","'">>

\* cone search: the format string before % (pos.ra.degree, pos.dec.degree, sr)
ConeTemplate ==
    <<"S","E","L","E","C","T"," ","*","\n">>
 \o <<"F","R","O","M"," ","i","v","o","a",".","O","b","s","C","o","r","e","\n">>
 \o <<"W","H","E","R","E"," ","i","n","t","e","r","s","e","c","t","s","(","s","_","r">>
 \o <<"e","g","i","o","n",","," ","c","i","r","c","l","e","(","'","'",","," ","%","f">>
 \o <<","," ","%","f",","," ","%","f",")",")","=","1","\n">>

\* point in footprint
PointQuery ==
    <<"S","E","L","E","C","T"," ","t","_","m","i","n",","," ","a","b","m","a","g","l">>
 \o <<"i","m",","," ","d","a","t","a","p","r","o","d","u","c","t","_","t","y","p","e">>
 \o <<" ","a","s"," ","t","y","p","e",","," ","d","p","_","i","d",","," ","o","b","s">>
 \o <<"_","r","e","l","e","a","s","e","_","d","a","t","e","\n">>
 \o <<"F","R","O","M"," ","i","v","o","a",".","O","b","s","C","o","r","e","\n">>
 \o <<"W","H","E","R","E"," ","C","O","N","T","A","I","N","S","(","p","o","i","n","t">>
 \o <<"(","'","'",","," ","1","9","3",".","8","1","5",","," ","0",".","0","9","9","8">>
 \o <<"1","9",")",","," ","s","_","r","e","g","i","o","n",")","=","1","\n">>
 \o <<"A","N","D"," ","d","a","t","a","p","r","o","d","u","c","t","_","t","y","p","e">>
 \o <<" ","i","n"," ","(","'","i","m","a","g","e","'",","," ","'","c","u","b","e","'">>
 \o <<")","\n">>
 \o <<"O","R","D","E","R"," ","B","Y"," ","t","_","m","i","n"," ","a","s","c">>

\* the region query with the footprint column as the first operand of CONTAINS
RegionQuerySwapped ==
    <<"S","E","L","E","C","T"," ","t","_","m","i","n",","," ","s","_","f","o","v",",">>
 \o <<" ","d","a","t","a","p","r","o","d","u","c","t","_","t","y","p","e"," ","a","s">>
 \o <<" ","t","y","p","e",","," ","d","p","_","i","d",","," ","o","b","s","_","r","e">>
 \o <<"l","e","a","s","e","_","d","a","t","e","\n">>
 \o <<"F","R","O","M"," ","i","v","o","a",".","O","b","s","C","o","r","e","\n">>
 \o <<"W","H","E","R","E"," ","C","O","N","T","A","I","N","S","(","s","_","r","e","g">>
 \o <<"i","o","n",","," ","C","I","R","C","L","E","(","'","'",","," ","1","1",".","8">>
 \o <<"8","8","0","0","2",","," ","-","2","5",".","2","8","8","2","2","0",","," ","0">>
 \o <<".","2","1",")",")","=","1","\n">>
 \o <<"A","N","D"," ","d","a","t","a","p","r","o","d","u","c","t","_","t","y","p","e">>
 \o <<" ","i","n"," ","(","'","i","m","a","g","e","'",","," ","'","c","u","b","e","'">>
 \o <<")","\n">>
 \o <<"O","R","D","E","R"," ","B","Y"," ","t","_","m","i","n"," ","a","s","c">>

\* region in footprint
RegionQuery ==
    <<"S","E","L","E","C","T"," ","t","_","m","i","n",","," ","s","_","f","o","v",",">>
 \o <<" ","d","a","t","a","p","r","o","d","u","c","t","_","t","y","p","e"," ","a","s">>
 \o <<" ","t","y","p","e",","," ","d","p","_","i","d",","," ","o","b","s","_","r","e">>
 \o <<"l","e","a","s","e","_","d","a","t","e","\n">>
 \o <<"F","R","O","M"," ","i","v","o","a",".","O","b","s","C","o","r","e","\n">>
 \o <<"W","H","E","R","E"," ","C","O","N","T","A","I","N","S","(","C","I","R","C","L">>
 \o <<"E","(","'","'",","," ","1","1",".","8","8","8","0","0","2",","," ","-","2","5">>
 \o <<".","2","8","8","2","2","0",","," ","0",".","2","1",")",","," ","s","_","r","e">>
 \o <<"g","i","o","n",")","=","1","\n">>
 \o <<"A","N","D"," ","d","a","t","a","p","r","o","d","u","c","t","_","t","y","p","e">>
 \o <<" ","i","n"," ","(","'","i","m","a","g","e","'",","," ","'","c","u","b","e","'">>
 \o <<")","\n">>
 \o <<"O","R","D","E","R"," ","B","Y"," ","t","_","m","i","n"," ","a","s","c">>

\* search by polygon
PolygonQuery ==
    <<"S","E","L","E","C","T"," ","t","_","m","i","n",","," ","s","n","r",","," ","a">>
 \o <<"b","m","a","g","l","i","m",","," ","d","a","t","a","p","r","o","d","u","c","t">>
 \o <<"_","t","y","p","e"," ","a","s"," ","t","y","p","e",","," ","d","p","_","i","d">>
 \o <<"\n">>
 \o <<"F","R","O","M"," ","i","v","o","a",".","O","b","s","C","o","r","e","\n">>
 \o <<"W","H","E","R","E"," ","I","N","T","E","R","S","E","C","T","S","(","s","_","r">>
 \o <<"e","g","i","o","n",","," ","P","O","L","Y","G","O","N","(","'","J","2","0","0">>
 \o <<"0","'",","," ","1","9","6",".","8","3","1","1",",","-","2","3",".","5","2","1">>
 \o <<"2",","," ","1","9","6",".","7","4","3","2",",","-","2","3",".","3","5","8","6">>
 \o <<","," ","1","9","6",".","6","5","5","3",",","-","2","3",".","1","9","6","2",",">>
 \o <<" ","1","9","6",".","4","7","9","5",",","-","2","3",".","0","3","3","9",","," ">>
 \o <<"1","9","6",".","3","9","1","6",",","-","2","2",".","8","7","1","9",","," ","1">>
 \o <<"9","6",".","3","0","3","7",",","-","2","2",".","7","1",","," ","1","9","6",".">>
 \o <<"2","1","5","8",",","-","2","2",".","5","4","8","4",","," ","1","9","6",".","1">>
 \o <<"2","7","9",",","-","2","2",".","3","8","6","9",","," ","1","9","6",".","0","4">>
 \o <<",","-","2","2",".","2","2","5","7",","," ","1","9","5",".","9","5","2","1",",">>
 \o <<"-","2","2",".","0","6","4","6",","," ","1","9","5",".","8","6","4","3",",","-">>
 \o <<"2","1",".","9","0","3","7",","," ","1","9","5",".","7","7","6","4",",","-","2">>
 \o <<"1",".","7","4","2","9",","," ","1","9","5",".","7","7","6","4",",","-","2","1">>
 \o <<".","5","8","2","4",","," ","1","9","5",".","6","8","8","5",",","-","2","1",".">>
 \o <<"4","2","2",","," ","1","9","5",".","6","0","0","6",",","-","2","1",".","2","6">>
 \o <<"1","8",","," ","1","9","5",".","5","1","2","7",",","-","2","1",".","1","0","1">>
 \o <<"8",","," ","1","9","5",".","4","2","4","8",",","-","2","0",".","9","4","2",",">>
 \o <<" ","1","9","5",".","3","3","6","9",",","-","2","0",".","7","8","2","3",","," ">>
 \o <<"1","9","5",".","3","3","6","9",",","-","2","0",".","6","2","2","8",","," ","1">>
 \o <<"9","5",".","2","4","9",",","-","2","0",".","4","6","3","4",","," ","1","9","5">>
 \o <<".","1","6","1","1",",","-","2","0",".","3","0","4","3",","," ","1","9","5",".">>
 \o <<"1","6","1","1",",","-","2","0",".","1","4","5","2",","," ","1","9","5",".","0">>
 \o <<"7","3","2",",","-","1","9",".","9","8","6","4",","," ","1","9","4",".","9","8">>
 \o <<"5","4",",","-","1","9",".","8","2","7","7",","," ","1","9","4",".","8","9","7">>
 \o <<"5",",","-","1","9",".","6","6","9","2",","," ","1","9","4",".","8","9","7","5">>
 \o <<",","-","1","9",".","5","1","0","8",","," ","1","9","4",".","8","0","9","6",",">>
 \o <<"-","1","9",".","3","5","2","6",","," ","1","9","4",".","7","2","1","7",",","-">>
 \o <<"1","9",".","1","9","4","5",","," ","1","9","4",".","6","3","3","8",",","-","1">>
 \o <<"9",".","0","3","6","6",","," ","1","9","4",".","6","3","3","8",",","-","1","8">>
 \o <<".","8","7","8","8",","," ","1","9","4",".","5","4","5","9",",","-","1","8",".">>
 \o <<"7","2","1","2",","," ","1","9","4",".","4","5","8",",","-","1","8",".","5","6">>
 \o <<"3","7",","," ","1","9","4",".","4","5","8",",","-","1","8",".","4","0","6","4">>
 \o <<","," ","1","9","4",".","3","7","0","1",",","-","1","8",".","2","4","9","2",",">>
 \o <<" ","1","9","4",".","4","5","8",",","-","1","8",".","0","9","2","2",","," ","1">>
 \o <<"9","4",".","4","5","8",",","-","1","7",".","9","3","5","3",","," ","1","9","4">>
 \o <<".","6","3","3","8",",","-","1","8",".","0","1","3","7",","," ","1","9","4",".">>
 \o <<"8","0","9","6",",","-","1","8",".","1","7","0","7",","," ","1","9","4",".","9">>
 \o <<"8","5","4",",","-","1","8",".","3","2","7","8",","," ","1","9","5",".","0","7">>
 \o <<"3","2",",","-","1","8",".","4","8","5","1",","," ","1","9","5",".","1","6","1">>
 \o <<"1",",","-","1","8",".","6","4","2","5",","," ","1","9","5",".","2","4","9",",">>
 \o <<"-","1","8",".","8",","," ","1","9","5",".","3","3","6","9",",","-","1","8",".">>
 \o <<"9","5","7","7",","," ","1","9","5",".","4","2","4","8",",","-","1","9",".","1">>
 \o <<"1","5","5",","," ","1","9","5",".","5","1","2","7",",","-","1","9",".","2","7">>
 \o <<"3","5",","," ","1","9","5",".","6","0","0","6",",","-","1","9",".","4","3","1">>
 \o <<"7",","," ","1","9","5",".","6","8","8","5",",","-","1","9",".","5","9",","," ">>
 \o <<"1","9","5",".","8","6","4","3",",","-","1","9",".","7","4","8","4",","," ","1">>
 \o <<"9","5",".","9","5","2","1",",","-","1","9",".","9","0","7",","," ","1","9","6">>
 \o <<".","1","2","7","9",",","-","2","0",".","0","6","5","8",","," ","1","9","6",".">>
 \o <<"2","1","5","8",",","-","2","0",".","2","2","4","7",","," ","1","9","6",".","3">>
 \o <<"9","1","6",",","-","2","0",".","3","8","3","8",","," ","1","9","6",".","4","7">>
 \o <<"9","5",",","-","2","0",".","5","4","3","1",","," ","1","9","6",".","5","6","7">>
 \o <<"4",",","-","2","0",".","7","0","2","5",","," ","1","9","6",".","6","5","5","3">>
 \o <<",","-","2","0",".","8","6","2","1",","," ","1","9","6",".","7","4","3","2",",">>
 \o <<"-","2","1",".","0","2","1","9",","," ","1","9","6",".","8","3","1","1",",","-">>
 \o <<"2","1",".","1","8","1","8",","," ","1","9","6",".","9","1","8","9",",","-","2">>
 \o <<"1",".","3","4","1","9",","," ","1","9","6",".","9","1","8","9",",","-","2","1">>
 \o <<".","5","0","2","2",","," ","1","9","7",".","0","0","6","8",",","-","2","1",".">>
 \o <<"6","6","2","6",","," ","1","9","7",".","0","9","4","7",",","-","2","1",".","8">>
 \o <<"2","3","3",","," ","1","9","7",".","1","8","2","6",",","-","2","1",".","9","8">>
 \o <<"4","1",","," ","1","9","7",".","2","7","0","5",",","-","2","2",".","1","4","5">>
 \o <<"1",","," ","1","9","7",".","3","5","8","4",",","-","2","2",".","3","0","6","3">>
 \o <<","," ","1","9","7",".","4","4","6","3",",","-","2","2",".","4","6","7","6",",">>
 \o <<" ","1","9","7",".","5","3","4","2",",","-","2","2",".","6","2","9","2",","," ">>
 \o <<"1","9","7",".","6","2","2","1",",","-","2","2",".","7","9","0","9",","," ","1">>
 \o <<"9","7",".","7","1",",","-","2","2",".","9","5","2","9",","," ","1","9","7",".">>
 \o <<"7","9","7","9",",","-","2","3",".","1","1","5",","," ","1","9","7",".","7","9">>
 \o <<"7","9",",","-","2","3",".","2","7","7","3",","," ","1","9","7",".","8","8","5">>
 \o <<"7",",","-","2","3",".","4","3","9","9",","," ","1","9","7",".","9","7","3","6">>
 \o <<",","-","2","3",".","6","0","2","6",","," ","1","9","8",".","0","6","1","5",",">>
 \o <<"-","2","3",".","7","6","5","5",","," ","1","9","8",".","1","4","9","4",",","-">>
 \o <<"2","3",".","9","2","8","7",","," ","1","9","8",".","2","3","7","3",",","-","2">>
 \o <<"4",".","0","9","2",","," ","1","9","8",".","3","2","5","2",",","-","2","4",".">>
 \o <<"2","5","5","6",","," ","1","9","8",".","4","1","3","1",",","-","2","4",".","4">>
 \o <<"1","9","3",","," ","1","9","8",".","5","0","1",",","-","2","4",".","5","8","3">>
 \o <<"3",","," ","1","9","8",".","5","0","1",",","-","2","4",".","7","4","7","5",",">>
 \o <<" ","1","9","8",".","5","8","8","9",",","-","2","4",".","9","1","1","9",","," ">>
 \o <<"1","9","8",".","6","7","6","8",",","-","2","5",".","0","7","6","5",","," ","1">>
 \o <<"9","8",".","7","6","4","6",",","-","2","5",".","2","4","1","4",","," ","1","9">>
 \o <<"8",".","8","5","2","5",",","-","2","5",".","4","0","6","4",","," ","1","9","8">>
 \o <<".","9","4","0","4",",","-","2","5",".","5","7","1","7",","," ","1","9","9",".">>
 \o <<"0","2","8","3",",","-","2","5",".","7","3","7","3",","," ","1","9","9",".","0">>
 \o <<"2","8","3",",","-","2","5",".","9","0","3",","," ","1","9","9",".","1","1","6">>
 \o <<"2",",","-","2","6",".","0","6","9",","," ","1","9","9",".","1","1","6","2",",">>
 \o <<"-","2","6",".","2","3","5","2",","," ","1","9","9",".","2","0","4","1",",","-">>
 \o <<"2","6",".","4","0","1","7",","," ","1","9","9",".","2","0","4","1",",","-","2">>
 \o <<"6",".","5","6","8","4",","," ","1","9","9",".","2","0","4","1",",","-","2","6">>
 \o <<".","7","3","5","3",","," ","1","9","9",".","2","0","4","1",",","-","2","6",".">>
 \o <<"9","0","2","5",","," ","1","9","9",".","1","1","6","2",",","-","2","6",".","9">>
 \o <<"0","2","5",","," ","1","9","8",".","9","4","0","4",",","-","2","6",".","7","3">>
 \o <<"5","3",","," ","1","9","8",".","7","6","4","6",",","-","2","6",".","5","6","8">>
 \o <<"4",","," ","1","9","8",".","5","8","8","9",",","-","2","6",".","4","0","1","7">>
 \o <<","," ","1","9","8",".","5","0","1",",","-","2","6",".","2","3","5","2",","," ">>
 \o <<"1","9","8",".","4","1","3","1",",","-","2","6",".","0","6","9",","," ","1","9">>
 \o <<"8",".","2","3","7","3",",","-","2","5",".","9","0","3",","," ","1","9","8",".">>
 \o <<"1","4","9","4",",","-","2","5",".","7","3","7","3",","," ","1","9","8",".","0">>
 \o <<"6","1","5",",","-","2","5",".","5","7","1","7",","," ","1","9","7",".","9","7">>
 \o <<"3","6",",","-","2","5",".","4","0","6","4",","," ","1","9","7",".","8","8","5">>
 \o <<"7",",","-","2","5",".","2","4","1","4",","," ","1","9","7",".","7","9","7","9">>
 \o <<",","-","2","5",".","0","7","6","5",","," ","1","9","7",".","7","1",",","-","2">>
 \o <<"4",".","9","1","1","9",","," ","1","9","7",".","6","2","2","1",",","-","2","4">>
 \o <<".","7","4","7","5",","," ","1","9","7",".","5","3","4","2",",","-","2","4",".">>
 \o <<"5","8","3","3",","," ","1","9","7",".","3","5","8","4",",","-","2","4",".","4">>
 \o <<"1","9","3",","," ","1","9","7",".","2","7","0","5",",","-","2","4",".","2","5">>
 \o <<"5","6",","," ","1","9","7",".","1","8","2","6",",","-","2","4",".","0","9","2">>
 \o <<","," ","1","9","7",".","0","9","4","7",",","-","2","3",".","9","2","8","7",",">>
 \o <<" ","1","9","7",".","0","0","6","8",",","-","2","3",".","7","6","5","5",","," ">>
 \o <<"1","9","6",".","9","1","8","9",",","-","2","3",".","6","0","2","6",")",")","=">>
 \o <<"1","\n">>
 \o <<"O","R","D","E","R"," ","B","Y"," ","t","_","m","i","n"," ","a","s","c">>

\* the spatial join with the alias of the first footprint column left out
JoinQueryUnqualified ==
    <<"S","E","L","E","C","T"," ","J",".","*"," ","F","R","O","M","\n">>
 \o <<" "," "," "," "," "," ","(","s","e","l","e","c","t"," ","*"," ","F","R","O","M">>
 \o <<" ","i","v","o","a",".","O","b","s","c","o","r","e"," ","W","H","E","R","E"," ">>
 \o <<"d","a","t","a","p","r","o","d","u","c","t","_","s","u","b","t","y","p","e"," ">>
 \o <<"=","'","s","r","c","t","b","l","'"," ","\n">>
 \o <<" "," "," "," "," "," ","A","N","D"," ","o","b","s","_","c","o","l","l","e","c">>
 \o <<"t","i","o","n"," ","="," ","'","H","A","W","K","I","'"," ","\n">>
 \o <<" "," "," "," "," "," ","A","N","D"," ","g","a","l","_","l","a","t"," ","<"," ">>
 \o <<"1","0"," ","A","N","D"," ","g","a","l","_","l","a","t"," ",">"," ","-","1","0">>
 \o <<" ","\n">>
 \o <<" "," "," "," "," "," ","A","N","D"," ","e","m","_","m","i","n"," ","<"," ","1">>
 \o <<".","2","6","5","E","-","6"," ","A","N","D"," ","e","m","_","m","a","x"," ",">">>
 \o <<" ","1",".","2","6","5","E","-","6"," ",")"," ","J",","," ","\n">>
 \o <<"\n">>
 \o <<" "," "," "," "," "," ","(","s","e","l","e","c","t"," ","*"," ","F","R","O","M">>
 \o <<" ","i","v","o","a",".","O","b","s","c","o","r","e"," ","W","H","E","R","E"," ">>
 \o <<"d","a","t","a","p","r","o","d","u","c","t","_","s","u","b","t","y","p","e"," ">>
 \o <<"=","'","s","r","c","t","b","l","'"," ","\n">>
 \o <<" "," "," "," "," "," ","A","N","D"," ","o","b","s","_","c","o","l","l","e","c">>
 \o <<"t","i","o","n"," ","="," ","'","H","A","W","K","I","'"," ","\n">>
 \o <<" "," "," "," "," "," ","A","N","D"," ","g","a","l","_","l","a","t"," ","<"," ">>
 \o <<"1","0"," ","A","N","D"," ","g","a","l","_","l","a","t"," ",">"," ","-","1","0">>
 \o <<" ","\n">>
 \o <<" "," "," "," "," "," ","A","N","D"," ","e","m","_","m","i","n"," ","<"," ","1">>
 \o <<".","6","6","E","-","6"," ","A","N","D"," ","e","m","_","m","a","x"," ",">"," ">>
 \o <<"1",".","6","6","E","-","6"," ",")"," ","H"," ","\n">>
 \o <<"\n">>
 \o <<"W","H","E","R","E"," ","I","N","T","E","R","S","E","C","T","S","("," ","s","_">>
 \o <<"r","e","g","i","o","n"," ",","," ","H",".","s","_","r","e","g","i","o","n",")">>
 \o <<"=","1"," ","a","n","d"," ","\n">>
 \o <<"E","S","O","_","I","N","T","E","R","S","E","C","T","I","O","N","("," ","J",".">>
 \o <<"s","_","r","e","g","i","o","n"," ",","," ","H",".","s","_","r","e","g","i","o">>
 \o <<"n",")"," ",">"," ","0",".","8","*","A","R","E","A","("," ","J",".","s","_","r">>
 \o <<"e","g","i","o","n"," ",")">>

\* spatial join
JoinQuery ==
    <<"S","E","L","E","C","T"," ","J",".","*"," ","F","R","O","M","\n">>
 \o <<" "," "," "," "," "," ","(","s","e","l","e","c","t"," ","*"," ","F","R","O","M">>
 \o <<" ","i","v","o","a",".","O","b","s","c","o","r","e"," ","W","H","E","R","E"," ">>
 \o <<"d","a","t","a","p","r","o","d","u","c","t","_","s","u","b","t","y","p","e"," ">>
 \o <<"=","'","s","r","c","t","b","l","'"," ","\n">>
 \o <<" "," "," "," "," "," ","A","N","D"," ","o","b","s","_","c","o","l","l","e","c">>
 \o <<"t","i","o","n"," ","="," ","'","H","A","W","K","I","'"," ","\n">>
 \o <<" "," "," "," "," "," ","A","N","D"," ","g","a","l","_","l","a","t"," ","<"," ">>
 \o <<"1","0"," ","A","N","D"," ","g","a","l","_","l","a","t"," ",">"," ","-","1","0">>
 \o <<" ","\n">>
 \o <<" "," "," "," "," "," ","A","N","D"," ","e","m","_","m","i","n"," ","<"," ","1">>
 \o <<".","2","6","5","E","-","6"," ","A","N","D"," ","e","m","_","m","a","x"," ",">">>
 \o <<" ","1",".","2","6","5","E","-","6"," ",")"," ","J",","," ","\n">>
 \o <<"\n">>
 \o <<" "," "," "," "," "," ","(","s","e","l","e","c","t"," ","*"," ","F","R","O","M">>
 \o <<" ","i","v","o","a",".","O","b","s","c","o","r","e"," ","W","H","E","R","E"," ">>
 \o <<"d","a","t","a","p","r","o","d","u","c","t","_","s","u","b","t","y","p","e"," ">>
 \o <<"=","'","s","r","c","t","b","l","'"," ","\n">>
 \o <<" "," "," "," "," "," ","A","N","D"," ","o","b","s","_","c","o","l","l","e","c">>
 \o <<"t","i","o","n"," ","="," ","'","H","A","W","K","I","'"," ","\n">>
 \o <<" "," "," "," "," "," ","A","N","D"," ","g","a","l","_","l","a","t"," ","<"," ">>
 \o <<"1","0"," ","A","N","D"," ","g","a","l","_","l","a","t"," ",">"," ","-","1","0">>
 \o <<" ","\n">>
 \o <<" "," "," "," "," "," ","A","N","D"," ","e","m","_","m","i","n"," ","<"," ","1">>
 \o <<".","6","6","E","-","6"," ","A","N","D"," ","e","m","_","m","a","x"," ",">"," ">>
 \o <<"1",".","6","6","E","-","6"," ",")"," ","H"," ","\n">>
 \o <<"\n">>
 \o <<"W","H","E","R","E"," ","I","N","T","E","R","S","E","C","T","S","("," ","J",".">>
 \o <<"s","_","r","e","g","i","o","n"," ",","," ","H",".","s","_","r","e","g","i","o">>
 \o <<"n",")","=","1"," ","a","n","d"," ","\n">>
 \o <<"E","S","O","_","I","N","T","E","R","S","E","C","T","I","O","N","("," ","J",".">>
 \o <<"s","_","r","e","g","i","o","n"," ",","," ","H",".","s","_","r","e","g","i","o">>
 \o <<"n",")"," ",">"," ","0",".","8","*","A","R","E","A","("," ","J",".","s","_","r">>
 \o <<"e","g","i","o","n"," ",")">>

\* the query by wavelengths with a constraint on the wavelength rescaled to nanometres
WavelengthQueryRescaledConstraint ==
    <<"S","E","L","E","C","T"," ","o","b","s","_","c","o","l","l","e","c","t","i","o">>
 \o <<"n"," ","a","s"," ","c","o","l","l","e","c","t","i","o","n",","," ","d","a","t">>
 \o <<"a","p","r","o","d","u","c","t","_","t","y","p","e"," ","a","s"," ","t","y","p">>
 \o <<"e",","," ","\n">>
 \o <<"d","a","t","a","p","r","o","d","u","c","t","_","s","u","b","t","y","p","e"," ">>
 \o <<"a","s"," ","s","u","b","t","y","p","e",","," ","e","m","_","m","i","n","*","1">>
 \o <<"E","9"," ","m","i","n","_","w","a","v","e","l","_","n","m",","," ","e","m","_">>
 \o <<"m","a","x","*","1","E","9"," ","m","a","x","_","w","a","v","e","l","_","n","m">>
 \o <<","," ","e","m","_","r","e","s","_","p","o","w","e","r","\n">>
 \o <<"F","R","O","M"," ","i","v","o","a",".","O","b","s","C","o","r","e","\n">>
 \o <<"W","H","E","R","E"," ","t","a","r","g","e","t","_","n","a","m","e"," ","="," ">>
 \o <<"'","a","3","7","0","'","\n">>
 \o <<"a","n","d"," ","e","m","_","m","i","n","*","1","E","9"," ","<"," ","3","0","0">>
 \o <<"0">>

\* query by wavelengths
WavelengthQuery ==
    <<"S","E","L","E","C","T"," ","o","b","s","_","c","o","l","l","e","c","t","i","o">>
 \o <<"n"," ","a","s"," ","c","o","l","l","e","c","t","i","o","n",","," ","d","a","t">>
 \o <<"a","p","r","o","d","u","c","t","_","t","y","p","e"," ","a","s"," ","t","y","p">>
 \o <<"e",","," ","\n">>
 \o <<"d","a","t","a","p","r","o","d","u","c","t","_","s","u","b","t","y","p","e"," ">>
 \o <<"a","s"," ","s","u","b","t","y","p","e",","," ","e","m","_","m","i","n","*","1">>
 \o <<"E","9"," ","m","i","n","_","w","a","v","e","l","_","n","m",","," ","e","m","_">>
 \o <<"m","a","x","*","1","E","9"," ","m","a","x","_","w","a","v","e","l","_","n","m">>
 \o <<","," ","e","m","_","r","e","s","_","p","o","w","e","r","\n">>
 \o <<"F","R","O","M"," ","i","v","o","a",".","O","b","s","C","o","r","e","\n">>
 \o <<"W","H","E","R","E"," ","t","a","r","g","e","t","_","n","a","m","e"," ","="," ">>
 \o <<"'","a","3","7","0","'","\n">>
 \o <<"a","n","d"," ","e","m","_","r","e","s","_","p","o","w","e","r"," ","<"," ","3">>
 \o <<"0","0","0">>

\* units of the ivoa.ObsCore columns
ColumnsQuery ==
    <<"S","E","L","E","C","T"," ","c","o","l","u","m","n","_","n","a","m","e",","," ">>
 \o <<"u","n","i","t",","," ","u","c","d"," ","-","-"," ","a","n","d"," ","o","t","h">>
 \o <<"e","r","s"," ","l","i","k","e"," ","d","e","s","c","r","i","p","t","i","o","n">>
 \o <<","," ","e","t","c",".","\n">>
 \o <<"f","r","o","m"," ","T","A","P","_","S","C","H","E","M","A",".","C","o","l","u">>
 \o <<"m","n","s","\n">>
 \o <<"w","h","e","r","e"," ","t","a","b","l","e","_","n","a","m","e","=","'","i","v">>
 \o <<"o","a",".","O","b","s","C","o","r","e","'">>
(***************************************************************************)
(* Numbers.  A Python float the notebook formats is modelled by the exact   *)
(* rational it stands for: sign, integer part and a reduced fraction        *)
(* num/den with 0 <= num < den.                                             *)
(***************************************************************************)
Num(neg, ip, num, den) == [neg |-> neg, ip |-> ip, num |-> num, den |-> den]

RECURSIVE GCD(_, _)
GCD(a, b) == IF b = 0 THEN a ELSE GCD(b, a % b)

\* the value of the number as Python compares it (-0.0 == 0.0)
Normal(x) ==
    LET g == GCD(x.den, x.num)
        zero == x.ip = 0 /\ x.num = 0
    IN  Num(x.neg /\ ~zero, x.ip, x.num \div g, x.den \div g)

Digit == <<"0","1","2","3","4","5","6","7","8","9">>

DigitValue(c) == CHOOSE d \in 0..9 : Digit[d + 1] = c

IsDigit(c) == \E d \in 0..9 : Digit[d + 1] = c

RECURSIVE IntText(_)
\* str() of a non-negative integer
IntText(n) == IF n < 10 THEN <<Digit[n + 1]>> ELSE IntText(n \div 10) \o <<Digit[(n % 10) + 1]>>

RECURSIVE Pow10(_)
Pow10(k) == IF k = 0 THEN 1 ELSE 10 * Pow10(k - 1)

RECURSIVE Padded(_, _)
\* n written with exactly k digits
Padded(n, k) == IF k = 0 THEN <<>> ELSE Padded(n \div 10, k - 1) \o <<Digit[(n % 10) + 1]>>

RECURSIVE LongDiv(_, _, _, _)
\* k more decimal digits of r/den by long division: <<digits so far as an integer, remainder>>
LongDiv(acc, r, den, k) ==
    IF k = 0 THEN <<acc, r>>
    ELSE LongDiv(acc * 10 + ((r * 10) \div den), (r * 10) % den, den, k - 1)

\* the precision of the %f conversion
FPrecision == 6

\* fixed point with prec decimals, correctly rounded (ties to even): what the
\* conversions %f and %.<prec>f print
FormatFixed(x, prec) ==
    LET d      == LongDiv(0, x.num, x.den, prec)
        units  == d[1]
        rem    == d[2]
        up     == \/ 2 * rem > x.den
                  \/ 2 * rem = x.den /\ units % 2 = 1
        m      == IF up THEN units + 1 ELSE units
        carry  == m = Pow10(prec)
        ipart  == IF carry THEN x.ip + 1 ELSE x.ip
        fpart  == IF carry THEN 0 ELSE m
    IN  (IF x.neg THEN <<"-">> ELSE <<>>)
        \o IntText(ipart) \o <<".">> \o Padded(fpart, prec)

\* a conversion that keeps two decimals only
FormatFShort(x) == FormatFixed(x, 2)

\* the %f conversion
FormatF(x) == FormatFixed(x, FPrecision)

\* the positions of the conversion specifiers %s and %f of a format string
\* (the format strings of the notebook hold no %% and no other conversion)
Conversions(fmt) ==
    {i \in 1..(Len(fmt) - 1) : fmt[i] = "%" /\ fmt[i + 1] \in {"s", "f"}}

\* what a conversion makes of its argument: %s takes a text unchanged, %f a number
Convert(c, arg) == IF c = "f" THEN FormatF(arg) ELSE arg

RECURSIVE PyFormatFrom(_, _, _, _)
\* the % operator from position i of the format string, k arguments consumed
PyFormatFrom(fmt, i, args, k) ==
    LET ahead == {p \in Conversions(fmt) : p >= i}
    IN  IF ahead = {} THEN SubSeq(fmt, i, Len(fmt))
        ELSE LET p == CHOOSE x \in ahead : \A y \in ahead : x <= y
             IN  SubSeq(fmt, i, p - 1) \o Convert(fmt[p + 1], args[k + 1])
                 \o PyFormatFrom(fmt, p + 2, args, k + 1)

\* fmt % (args)
PyFormat(fmt, args) == PyFormatFrom(fmt, 1, args, 0)

(***************************************************************************)
(* Inputs.  The notebook writes its inputs as literals of the cells; the    *)
(* reader is invited to change them and run the cells again, so each is     *)
(* drawn from a small set that holds the literal of the notebook.           *)
(***************************************************************************)
IdAlphabet == {"A", "'"}

\* the non-empty texts over S of at most n characters
Texts(S, n) == UNION {[1..k -> S] : k \in 1..n}

\* an identifier that closes the literal and adds a predicate
OR_TRUE ==
    <<"x","'"," ","O","R"," ","'","x","'","=","'","x">>

Identifiers == {DP_ID, OR_TRUE} \cup Texts(IdAlphabet, MaxIdLen)

FileNames == {ORIGFILE} \cup Texts({"A", "'"}, 1)

\* right ascensions the name resolver may answer with: 185.583, 185.5
RAs == {Num(FALSE, 185, 583, 1000), Num(FALSE, 185, 1, 2)}

\* declinations: 13.093, 10.0, -0.4619
Decs == {Num(FALSE, 13, 93, 1000), Num(FALSE, 10, 0, 1), Num(TRUE, 0, 4619, 10000)}

\* search radii: 2.5/60. (the notebook's), 0.0417, 0.5, and 1/128 (a tie of the rounding)
Radii == {Num(FALSE, 0, 1, 24), Num(FALSE, 0, 417, 10000), Num(FALSE, 0, 1, 2),
          Num(FALSE, 0, 1, 128)}

(***************************************************************************)
(* The state.                                                               *)
(***************************************************************************)
\* a name the kernel has not bound yet
Unbound == <<>>

NoNumber == Num(FALSE, 0, 0, 1)

\* res before the first search
NoResult == [req |-> 0, nrows |-> 0]

Cells == <<"setup", "identifier", "search_identifier", "display_columns", "origfile",
           "cone", "cone_search", "plot", "point", "region", "polygon", "join",
           "wavelengths", "describe", "done">>

CellIndex(c) == CHOOSE i \in 1..Len(Cells) : Cells[i] = c

\* the cell that runs after c
Following(c) == Cells[CellIndex(c) + 1]

Init ==
    /\ pc = "setup"
    /\ tapobs = Unbound
    /\ dp_id = Unbound
    /\ origfile = Unbound
    /\ ivorn = Unbound
    /\ pos = [ra |-> NoNumber, dec |-> NoNumber]
    /\ sr = NoNumber
    /\ query = Unbound
    /\ res = NoResult
    /\ err = "none"
    /\ sent = <<>>

\* an exception leaves the cell: the run of the notebook stops there
Raise(e) == pc' = "stopped" /\ err' = e

Advance == pc' = Following(pc) /\ err' = err

Min(a, b) == IF a < b THEN a ELSE b

\* maxrec of the searches that give one
MaxrecCone == 1000
MaxrecPoint == 1000
MaxrecRegion == 1000
MaxrecPolygon == 2000
MaxrecJoin == 20000
MaxrecWavelengths == 3

\* the rows the service may answer with under a row cap (<<>>: no cap given)
RowCounts(maxrec) ==
    IF maxrec = <<>> THEN 0..MaxRows ELSE 0..Min(MaxRows, maxrec[1])

\* res = tapobs.search(query=q, maxrec=...): the request goes to the endpoint, and the
\* call returns the table of the answer or raises what the service or the transport
\* reported (pyvo's DALQueryError, DALServiceError); nothing is caught
Search(q, maxrec) ==
    /\ sent' = Append(sent, [url |-> tapobs, query |-> q, maxrec |-> maxrec])
    /\ \/ \E n \in RowCounts(maxrec) :
             /\ res' = [req |-> Len(sent) + 1, nrows |-> n]
             /\ Advance
       \/ \E e \in {"DALQueryError", "DALServiceError"} :
             /\ res' = res
             /\ Raise(e)

(***************************************************************************)
(* The code cells, in the order of the notebook.                            *)
(***************************************************************************)
\* tapobs = tap.TAPService(ESO_TAP_OBS)
Setup ==
    /\ pc = "setup"
    /\ tapobs' = ESO_TAP_OBS
    /\ Advance
    /\ UNCHANGED <<dp_id, origfile, ivorn, pos, sr, query, res, sent>>

\* the identifier query without the quotes around the value
IdentifierQueryUnquoted(id) ==
    PyFormat(SelectSeq(IdentifierTemplate, LAMBDA c : c # "'"), <<id>>)

\* the query by dp_id that the cell builds for identifier id
IdentifierQuery(id) == PyFormat(IdentifierTemplate, <<id>>)

\* dp_id = ...; query = """...""" % (dp_id); print(query)
BuildIdentifierQuery ==
    /\ pc = "identifier"
    /\ \E id \in Identifiers :
          /\ dp_id' = id
          /\ query' = IdentifierQuery(id)
    /\ Advance
    /\ UNCHANGED <<tapobs, origfile, ivorn, pos, sr, res, sent>>

\* res = tapobs.search(query=query); print(res)
SearchIdentifier ==
    /\ pc = "search_identifier"
    /\ Search(query, <<>>)
    /\ UNCHANGED <<tapobs, dp_id, origfile, ivorn, pos, sr, query>>

\* for colname in res.to_table().colnames: print(... res[colname][0]):
\* row 0 of every column is read; a table without rows has no row 0
DisplayColumns ==
    /\ pc = "display_columns"
    /\ IF res.nrows = 0 THEN Raise("IndexError") ELSE Advance
    /\ UNCHANGED <<tapobs, dp_id, origfile, ivorn, pos, sr, query, res, sent>>

\* the query by obs_creator_did that the cell builds for file name name
OrigfileQuery(name) == PyFormat(OrigfileTemplate, <<IVORN_PREFIX \o name>>)

\* origfile = ...; ivorn = 'ivo://eso.org/origfile?' + origfile; query = ...; print(query)
\* (the cell ends here: it does not search)
BuildOrigfileQuery ==
    /\ pc = "origfile"
    /\ \E name \in FileNames :
          /\ origfile' = name
          /\ ivorn' = IVORN_PREFIX \o name
          /\ query' = OrigfileQuery(name)
    /\ Advance
    /\ UNCHANGED <<tapobs, dp_id, pos, sr, res, sent>>

\* the cone search with declination and right ascension exchanged
ConeQuerySwapped(ra, dec, r) == PyFormat(ConeTemplate, <<dec, ra, r>>)

\* the cone search query for a circle of radius r around (ra, dec)
ConeQuery(ra, dec, r) == PyFormat(ConeTemplate, <<ra, dec, r>>)

\* pos = SkyCoord.from_name(target); sr = 2.5/60.; query = """...""" % (pos.ra.degree,
\* pos.dec.degree, sr); print(query).  The name resolver answers with a position or
\* fails (astropy's NameResolveError), before sr and query are assigned.
BuildConeQuery ==
    /\ pc = "cone"
    /\ \/ \E ra \in RAs, dec \in Decs, r \in Radii :
             /\ pos' = [ra |-> ra, dec |-> dec]
             /\ sr' = r
             /\ query' = ConeQuery(ra, dec, r)
             /\ Advance
       \/ /\ Raise("NameResolveError")
          /\ UNCHANGED <<pos, sr, query>>
    /\ UNCHANGED <<tapobs, dp_id, origfile, ivorn, res, sent>>

\* res = tapobs.search(query=query, maxrec=1000); print(len(res))
SearchCone ==
    /\ pc = "cone_search"
    /\ Search(query, <<MaxrecCone>>)
    /\ UNCHANGED <<tapobs, dp_id, origfile, ivorn, pos, sr, query>>

\* dp_types = res['dataproduct_type']; Counter; DataFrame; plot: reads the column of res
PlotTypes ==
    /\ pc = "plot"
    /\ Advance
    /\ UNCHANGED <<tapobs, dp_id, origfile, ivorn, pos, sr, query, res, sent>>

\* query = """..."""; print(query); res = tapobs.search(query=query, maxrec=...); print:
\* what the cells that assign a literal query do after their guard
RunLiteral(q, maxrec) ==
    /\ query' = q
    /\ Search(q, maxrec)
    /\ UNCHANGED <<tapobs, dp_id, origfile, ivorn, pos, sr>>

PointInFootprint ==
    /\ pc = "point"
    /\ RunLiteral(PointQuery, <<MaxrecPoint>>)

RegionInFootprint ==
    /\ pc = "region"
    /\ RunLiteral(RegionQuery, <<MaxrecRegion>>)

SearchByPolygon ==
    /\ pc = "polygon"
    /\ RunLiteral(PolygonQuery, <<MaxrecPolygon>>)

SpatialJoin ==
    /\ pc = "join"
    /\ RunLiteral(JoinQuery, <<MaxrecJoin>>)

QueryByWavelengths ==
    /\ pc = "wavelengths"
    /\ RunLiteral(WavelengthQuery, <<MaxrecWavelengths>>)

\* query = ...TAP_SCHEMA.Columns...; res = tapobs.search(query=query); for row in res: print
DescribeColumns ==
    /\ pc = "describe"
    /\ RunLiteral(ColumnsQuery, <<>>)

Next ==
    \/ Setup
    \/ BuildIdentifierQuery
    \/ SearchIdentifier
    \/ DisplayColumns
    \/ BuildOrigfileQuery
    \/ BuildConeQuery
    \/ SearchCone
    \/ PlotTypes
    \/ PointInFootprint
    \/ RegionInFootprint
    \/ SearchByPolygon
    \/ SpatialJoin
    \/ QueryByWavelengths
    \/ DescribeColumns

Spec == Init /\ [][Next]_vars

(***************************************************************************)
(* Reading a query as the ADQL service reads it.  A string literal opens    *)
(* at a quote and closes at the next quote that is not doubled; a doubled   *)
(* quote inside a literal stands for one quote character.                   *)
(***************************************************************************)
QuotesBefore(t, i) == Cardinality({q \in 1..(i - 1) : t[q] = "'"})

\* the quote at i, reached outside a literal, continues the literal that the quote
\* before it seemed to close (the second quote of a doubled quote)
Doubled(t, i) ==
    /\ i > 1
    /\ t[i - 1] = "'"
    /\ QuotesBefore(t, i - 1) % 2 = 1

\* a literal opens at i
OpensLiteral(t, i) ==
    /\ t[i] = "'"
    /\ QuotesBefore(t, i) % 2 = 0
    /\ ~Doubled(t, i)

\* the character at i is outside every literal
Outside(t, i) == t[i] # "'" /\ QuotesBefore(t, i) % 2 = 0

\* every literal of the text is closed
Terminated(t) == QuotesBefore(t, Len(t) + 1) % 2 = 0

\* the text with every literal replaced by a question mark: what the query is made of
\* besides the values of its literals
Skeleton(t) ==
    SelectSeq([i \in 1..Len(t) |->
                  IF OpensLiteral(t, i) THEN "?" ELSE IF Outside(t, i) THEN t[i] ELSE ""],
              LAMBDA c : c # "")

\* where the literal that opens at o closes (Len(t) + 1 when it never does)
ClosesAt(t, o) ==
    LET ends == {c \in (o + 1)..Len(t) :
                    /\ t[c] = "'"
                    /\ QuotesBefore(t, c) % 2 = 1
                    /\ ~(c < Len(t) /\ t[c + 1] = "'")}
    IN  IF ends = {} THEN Len(t) + 1 ELSE CHOOSE c \in ends : \A d \in ends : c <= d

\* the value of the literal that opens at o
LiteralValue(t, o) ==
    SelectSeq([k \in 1..(ClosesAt(t, o) - o - 1) |->
                  LET p == o + k
                  IN  IF t[p] # "'" \/ QuotesBefore(t, p) % 2 = 0 THEN t[p] ELSE ""],
              LAMBDA c : c # "")

\* the elements of a finite set of integers in increasing order
Ascending(S) ==
    [j \in 1..Cardinality(S) |-> CHOOSE x \in S : Cardinality({y \in S : y <= x}) = j]

\* the values of the literals of the text, in order
Literals(t) ==
    LET opens == Ascending({i \in 1..Len(t) : OpensLiteral(t, i)})
    IN  [j \in 1..Len(opens) |-> LiteralValue(t, opens[j])]

LowerCase ==
    <<"a","b","c","d","e","f","g","h","i","j","k","l","m",
      "n","o","p","q","r","s","t","u","v","w","x","y","z">>

UpperCase ==
    <<"A","B","C","D","E","F","G","H","I","J","K","L","M",
      "N","O","P","Q","R","S","T","U","V","W","X","Y","Z">>

\* ADQL keywords and names are case insensitive
Up(c) == IF \E i \in 1..26 : LowerCase[i] = c
         THEN UpperCase[CHOOSE i \in 1..26 : LowerCase[i] = c] ELSE c

UpText(t) == [i \in 1..Len(t) |-> Up(t[i])]

IsWordChar(c) == Up(c) \in {UpperCase[i] : i \in 1..26} \/ IsDigit(c) \/ c = "_"

\* word w (in upper case) stands at i of the text as a whole word
WordAt(t, w, i) ==
    /\ i + Len(w) - 1 <= Len(t)
    /\ UpText(SubSeq(t, i, i + Len(w) - 1)) = w
    /\ i = 1 \/ ~IsWordChar(t[i - 1])
    /\ i + Len(w) > Len(t) \/ ~IsWordChar(t[i + Len(w)])

\* where word w stands in the text
WordPositions(t, w) == {i \in 1..Len(t) : Up(t[i]) = w[1] /\ WordAt(t, w, i)}

WHERE == <<"W","H","E","R","E">>

\* the query of the scenario, on a single line
SingleLineIdentifierQuery ==
    <<"S","E","L","E","C","T"," ","*"," ","F","R","O","M"," ","i","v","o","a",".","O">>
 \o <<"b","s","C","o","r","e"," ","W","H","E","R","E"," ","d","p","_","i","d"," ","=">>
 \o <<" ","'","A","D","P",".","2","0","1","3","-","1","2","-","1","0","T","1","6",":">>
 \o <<"1","2",":","1","7",".","6","9","7","'">>

\* the query of the scenario, on the three lines of the cell
ThreeLineIdentifierQuery ==
    <<"S","E","L","E","C","T"," ","*","\n">>
 \o <<"F","R","O","M"," ","i","v","o","a",".","O","b","s","C","o","r","e","\n">>
 \o <<"W","H","E","R","E"," ","d","p","_","i","d"," ","="," ","'","A","D","P",".","2">>
 \o <<"0","1","3","-","1","2","-","1","0","T","1","6",":","1","2",":","1","7",".","6">>
 \o <<"9","7","'">>

\* what follows WHERE in a query on dp_id, its literal replaced by ?
DpIdClause ==
    <<" ","d","p","_","i","d"," ","="," ","?">>
(***************************************************************************)
(* Query by dataset identifier.                                             *)
(***************************************************************************)
\* the identifier cell has run: query is the query built for dp_id
IdentifierBuilt == pc = "search_identifier"

\* C1: for every non-empty identifier the built query has exactly one WHERE clause,
\* the clause compares dp_id for equality with one quoted literal, and the value of
\* that literal is the identifier, character for character.
C1_LiteralIsIdentifier ==
    IdentifierBuilt =>
        LET sk == Skeleton(query)
            wp == WordPositions(sk, WHERE)
        IN  /\ dp_id # <<>>
            /\ Terminated(query)
            /\ Cardinality(wp) = 1
            /\ \A w \in wp : SubSeq(sk, w + Len(WHERE), Len(sk)) = DpIdClause
            /\ Literals(query) = <<dp_id>>

\* the spaces of the single-line rendering stand where the cell has line ends
OnOneLine(t) == [i \in 1..Len(t) |-> IF t[i] = "\n" THEN " " ELSE t[i]]

\* the scenario of C2: the identifier cell has run on the identifier of the notebook
ScenarioIdentifier == IdentifierBuilt /\ dp_id = DP_ID

\* C2 as stated: the query for ADP.2013-12-10T16:12:17.697 equals the single-line string
\* with spaces between the SELECT, FROM and WHERE parts.
C2_EqualsSingleLine ==
    ScenarioIdentifier => query = SingleLineIdentifierQuery

\* C2 amended: the query for ADP.2013-12-10T16:12:17.697 is the three-line string, the
\* SELECT, FROM and WHERE parts separated by line ends; it has the tokens of the
\* single-line string in the same order and differs from it only in those separators.
C2_EqualsThreeLines ==
    ScenarioIdentifier =>
        /\ query = ThreeLineIdentifierQuery
        /\ OnOneLine(query) = SingleLineIdentifierQuery

C2_Witness == ScenarioIdentifier /\ Len(query) = Len(SingleLineIdentifierQuery)

\* C10: whatever the identifier, a quote character included, the query keeps the one
\* structure (one SELECT, one WHERE with the single predicate on dp_id) and the input
\* stays inside the literal: the queries of two identifiers differ in the literal's
\* value alone.
C10_OnlyLiteralDiffers ==
    IdentifierBuilt =>
        /\ Terminated(query)
        /\ Len(Literals(query)) = 1
        /\ \A other \in Identifiers :
              LET q2 == IdentifierQuery(other)
              IN  /\ Skeleton(query) = Skeleton(q2)
                  /\ Terminated(q2)
                  /\ Len(Literals(q2)) = 1

CIRCLE == <<"C","I","R","C","L","E">>

CONTAINS == <<"C","O","N","T","A","I","N","S">>

INTERSECTS == <<"I","N","T","E","R","S","E","C","T","S">>

POINT == <<"P","O","I","N","T">>

POLYGON == <<"P","O","L","Y","G","O","N">>

S_REGION == <<"S","_","R","E","G","I","O","N">>

\* the WHERE clause of the scenario of the cone search
ScenarioConeClause ==
    <<"W","H","E","R","E"," ","i","n","t","e","r","s","e","c","t","s","(","s","_","r">>
 \o <<"e","g","i","o","n",","," ","c","i","r","c","l","e","(","'","'",","," ","1","8">>
 \o <<"5",".","5","8","3","0","0","0",","," ","1","3",".","0","9","3","0","0","0",",">>
 \o <<" ","0",".","0","4","1","7","0","0",")",")","=","1">>
(***************************************************************************)
(* Reading the function calls of a query: the operands of a call are the    *)
(* texts between its parentheses, cut at the commas that belong to it.      *)
(***************************************************************************)
IsSpace(c) == c \in {" ", "\n", "\t"}

\* the text without the white space around it
Trim(t) ==
    LET ink == {i \in 1..Len(t) : ~IsSpace(t[i])}
    IN  IF ink = {} THEN <<>>
        ELSE SubSeq(t, CHOOSE i \in ink : \A j \in ink : i <= j,
                       CHOOSE i \in ink : \A j \in ink : i >= j)

\* the operands of the call whose parenthesis opens at open
CallArgs(t, open) ==
    LET quotes   == {q \in 1..Len(t) : t[q] = "'"}
        out(i)   == t[i] # "'" /\ Cardinality({q \in quotes : q < i}) % 2 = 0
        opens    == {j \in open..Len(t) : t[j] = "(" /\ out(j)}
        closes   == {j \in open..Len(t) : t[j] = ")" /\ out(j)}
        depth(i) == Cardinality({j \in opens : j < i}) - Cardinality({j \in closes : j < i})
        matching == {c \in closes : depth(c) = 1}
        close    == IF matching = {} THEN Len(t) + 1
                    ELSE CHOOSE c \in matching : \A d \in matching : c <= d
        commas   == {j \in (open + 1)..(close - 1) : t[j] = "," /\ out(j) /\ depth(j) = 1}
        cuts     == Ascending({open, close} \cup commas)
    IN  [k \in 1..(Len(cuts) - 1) |-> Trim(SubSeq(t, cuts[k] + 1, cuts[k + 1] - 1))]

\* the calls of function f (in upper case) in the text: the positions of their parentheses
CallsOf(t, f) ==
    {i + Len(f) : i \in {p \in WordPositions(t, f) :
                            /\ Outside(t, p)
                            /\ p + Len(f) <= Len(t)
                            /\ t[p + Len(f)] = "("}}

\* the operand is a geometry the caller wrote: a call of POINT, CIRCLE or POLYGON
IsShape(arg) ==
    \E f \in {POINT, CIRCLE, POLYGON} :
        /\ WordAt(arg, f, 1)
        /\ Len(arg) > Len(f) + 1
        /\ arg[Len(f) + 1] = "("
        /\ arg[Len(arg)] = ")"

\* the operand is the footprint column, bare or qualified by a table alias
IsFootprintColumn(arg) ==
    \/ UpText(arg) = S_REGION
    \/ /\ Len(arg) > Len(S_REGION) + 1
       /\ UpText(SubSeq(arg, Len(arg) - Len(S_REGION) + 1, Len(arg))) = S_REGION
       /\ arg[Len(arg) - Len(S_REGION)] = "."
       /\ \A i \in 1..(Len(arg) - Len(S_REGION) - 1) : IsWordChar(arg[i])

(***************************************************************************)
(* Reading a decimal literal back into the number it denotes.               *)
(***************************************************************************)
RECURSIVE DigitsValue(_)
DigitsValue(t) ==
    IF t = <<>> THEN 0 ELSE 10 * DigitsValue(SubSeq(t, 1, Len(t) - 1)) + DigitValue(t[Len(t)])

\* the text is a decimal literal: an optional sign, digits, a point, digits
IsDecimal(t) ==
    LET body == IF t # <<>> /\ t[1] = "-" THEN Tail(t) ELSE t
        dots == {i \in 1..Len(body) : body[i] = "."}
    IN  /\ Cardinality(dots) = 1
        /\ \A i \in 1..Len(body) : i \in dots \/ IsDigit(body[i])
        /\ \A d \in dots : d > 1 /\ d < Len(body)

\* the digits after the point of a decimal literal
Decimals(t) == Len(t) - (CHOOSE i \in 1..Len(t) : t[i] = ".")

\* the number a decimal literal denotes
ParseDecimal(t) ==
    LET neg  == t[1] = "-"
        body == IF neg THEN Tail(t) ELSE t
        dot  == CHOOSE i \in 1..Len(body) : body[i] = "."
        frac == SubSeq(body, dot + 1, Len(body))
    IN  Normal(Num(neg, DigitsValue(SubSeq(body, 1, dot - 1)),
                   DigitsValue(frac), Pow10(Len(frac))))

(***************************************************************************)
(* Cone search.                                                             *)
(***************************************************************************)
\* the cone search cell has run: query is the query built for pos and sr
ConeBuilt == pc = "cone_search"

\* the three numbers the cone search cell formats, in the order of its tuple
ConeInputs == <<pos.ra, pos.dec, sr>>

\* the operands of the one call of function f in the text
ArgsOfOnly(t, f) == CallArgs(t, CHOOSE c \in CallsOf(t, f) : TRUE)

\* the WHERE clause of a query: from its WHERE to its end
WhereClause(t) ==
    LET w == CHOOSE p \in WordPositions(t, WHERE) : Outside(t, p)
    IN  Trim(SubSeq(t, w, Len(t)))

\* the number in millionths, truncated
MicroFloor(x) ==
    LET a == (x.num * 1000) \div x.den
        r == (x.num * 1000) % x.den
    IN  (x.ip * 1000 + a) * 1000 + (r * 1000) \div x.den

\* the decimal literal t is x cut or rounded at the sixth decimal, with the sign of x
RendersSixDecimals(t, x) ==
    /\ IsDecimal(t)
    /\ Decimals(t) = 6
    /\ (t[1] = "-") <=> x.neg
    /\ LET p == ParseDecimal(t)
       IN  (p.ip * 1000000 + p.num * (1000000 \div p.den)) - MicroFloor(x) \in {0, 1}

Ra185583 == Num(FALSE, 185, 583, 1000)
Dec13093 == Num(FALSE, 13, 93, 1000)
Radius00417 == Num(FALSE, 0, 417, 10000)

\* C3: the cone search builds intersects(s_region, circle('', <ra>, <dec>, <radius>))=1
\* with the three numbers in the order ra, dec, radius, each in fixed point with exactly
\* six decimals; for (185.583, 13.093, 0.0417) the clause is
\* WHERE intersects(s_region, circle('', 185.583000, 13.093000, 0.041700))=1.
C3_ConeClause ==
    ConeBuilt =>
        /\ Cardinality(CallsOf(query, INTERSECTS)) = 1
        /\ Cardinality(CallsOf(query, CIRCLE)) = 1
        /\ LET outer == ArgsOfOnly(query, INTERSECTS)
               inner == ArgsOfOnly(query, CIRCLE)
               close == Len(WhereClause(query)) - 2
           IN  /\ Len(outer) = 2
               /\ UpText(outer[1]) = S_REGION
               /\ WordAt(outer[2], CIRCLE, 1)
               /\ SubSeq(WhereClause(query), close, close + 2) = <<")", "=", "1">>
               /\ Len(inner) = 4
               /\ inner[1] = <<"'", "'">>
               /\ \A k \in 1..3 : RendersSixDecimals(inner[k + 1], ConeInputs[k])
        /\ ConeInputs = <<Ra185583, Dec13093, Radius00417>>
              => WhereClause(query) = ScenarioConeClause

C3_Witness ==
    /\ ConeBuilt
    /\ ConeInputs = <<Ra185583, Dec13093, Radius00417>>
    /\ WhereClause(query) = ScenarioConeClause

\* the three numbers that the circle of the cone search query denotes
ConeLiterals(t) ==
    LET a == ArgsOfOnly(t, CIRCLE)
    IN  <<ParseDecimal(a[2]), ParseDecimal(a[3]), ParseDecimal(a[4])>>

\* the number is written exactly with at most six decimals
SixDecimalsSuffice(x) == 1000000 % Normal(x).den = 0

\* C4 as stated: for every input triple, parsing the three numeric literals of the
\* generated circle(...) recovers the three values that were supplied.
C4_RoundTripEvery ==
    ConeBuilt => \A k \in 1..3 : ConeLiterals(query)[k] = Normal(ConeInputs[k])

\* C4 amended: parsing the generated circle(...) recovers every supplied value that has
\* at most six decimal places, as all of (185.5, 10.0, 0.5) have; a value with more
\* decimals (the notebook's own radius 2.5/60) comes back changed, rounded to the
\* sixth decimal.
C4_RoundTripSixDecimals ==
    ConeBuilt =>
        \A k \in 1..3 :
            LET x == ConeInputs[k]
                y == ConeLiterals(query)[k]
            IN  /\ SixDecimalsSuffice(x) => y = Normal(x)
                /\ ~SixDecimalsSuffice(x) =>
                      /\ y # Normal(x)
                      /\ SixDecimalsSuffice(y)
                      /\ (y.ip * 1000000 + y.num * (1000000 \div y.den)) - MicroFloor(x)
                            \in {0, 1}

C4_Witness ==
    /\ ConeBuilt
    /\ ConeInputs = <<Num(FALSE, 185, 1, 2), Num(FALSE, 10, 0, 1), Num(FALSE, 0, 1, 2)>>
    /\ ConeLiterals(query) = ConeInputs

(***************************************************************************)
(* Order of the operands of CONTAINS and INTERSECTS.                        *)
(***************************************************************************)
\* the queries that the cells write as literals
LiteralQueries ==
    {PointQuery, RegionQuery, PolygonQuery, JoinQuery, WavelengthQuery, ColumnsQuery}

\* how the text orders the operands of its calls of CONTAINS and INTERSECTS
OperandOrder(t) ==
    [inOrder |->
        /\ \A c \in CallsOf(t, CONTAINS) :
              LET a == CallArgs(t, c)
              IN  Len(a) = 2 /\ IsShape(a[1]) /\ IsFootprintColumn(a[2])
        /\ \A c \in CallsOf(t, INTERSECTS) :
              LET a == CallArgs(t, c)
              IN  /\ Len(a) = 2
                  /\ IsFootprintColumn(a[1])
                  /\ IsShape(a[2]) \/ IsFootprintColumn(a[2]),
     containsShape |->
        \E c \in CallsOf(t, CONTAINS) : IsShape(CallArgs(t, c)[1]),
     intersectsShape |->
        \E c \in CallsOf(t, INTERSECTS) : IsShape(CallArgs(t, c)[2])]

\* every query a cell can build from the inputs of the model
BuiltQueries ==
    LiteralQueries
    \cup {IdentifierQuery(id) : id \in Identifiers}
    \cup {OrigfileQuery(name) : name \in FileNames}
    \cup {ConeQuery(ra, dec, r) : ra \in RAs, dec \in Decs, r \in Radii}

\* OperandOrder of the queries that can be built, read once
BuiltOperandOrder == [t \in BuiltQueries |-> OperandOrder(t)]

\* OperandOrder of the query the kernel holds
QueryOperandOrder ==
    IF query \in BuiltQueries THEN BuiltOperandOrder[query] ELSE OperandOrder(query)

\* C5: in every query that is built, the shape the caller wrote is the first operand of
\* CONTAINS and the footprint column s_region the second; s_region is the first operand
\* of INTERSECTS and the shape the second.  The point and region cells build a CONTAINS
\* of a shape, the cone search and polygon cells an INTERSECTS with a shape.
C5_OperandOrder ==
    /\ QueryOperandOrder.inOrder
    /\ pc \in {"region", "polygon"} => QueryOperandOrder.containsShape
    /\ pc \in {"cone_search", "join"} => QueryOperandOrder.intersectsShape

C5_Witness ==
    /\ pc = "polygon"
    /\ QueryOperandOrder.containsShape
    /\ QueryOperandOrder.inOrder

\* the subquery of the J band as the join cell writes it
SubqueryJ ==
    <<"s","e","l","e","c","t"," ","*"," ","F","R","O","M"," ","i","v","o","a",".","O">>
 \o <<"b","s","c","o","r","e"," ","W","H","E","R","E"," ","d","a","t","a","p","r","o">>
 \o <<"d","u","c","t","_","s","u","b","t","y","p","e"," ","=","'","s","r","c","t","b">>
 \o <<"l","'"," ","\n">>
 \o <<" "," "," "," "," "," ","A","N","D"," ","o","b","s","_","c","o","l","l","e","c">>
 \o <<"t","i","o","n"," ","="," ","'","H","A","W","K","I","'"," ","\n">>
 \o <<" "," "," "," "," "," ","A","N","D"," ","g","a","l","_","l","a","t"," ","<"," ">>
 \o <<"1","0"," ","A","N","D"," ","g","a","l","_","l","a","t"," ",">"," ","-","1","0">>
 \o <<" ","\n">>
 \o <<" "," "," "," "," "," ","A","N","D"," ","e","m","_","m","i","n"," ","<"," ","1">>
 \o <<".","2","6","5","E","-","6"," ","A","N","D"," ","e","m","_","m","a","x"," ",">">>
 \o <<" ","1",".","2","6","5","E","-","6">>

\* the subquery of the H band as the join cell writes it
SubqueryH ==
    <<"s","e","l","e","c","t"," ","*"," ","F","R","O","M"," ","i","v","o","a",".","O">>
 \o <<"b","s","c","o","r","e"," ","W","H","E","R","E"," ","d","a","t","a","p","r","o">>
 \o <<"d","u","c","t","_","s","u","b","t","y","p","e"," ","=","'","s","r","c","t","b">>
 \o <<"l","'"," ","\n">>
 \o <<" "," "," "," "," "," ","A","N","D"," ","o","b","s","_","c","o","l","l","e","c">>
 \o <<"t","i","o","n"," ","="," ","'","H","A","W","K","I","'"," ","\n">>
 \o <<" "," "," "," "," "," ","A","N","D"," ","g","a","l","_","l","a","t"," ","<"," ">>
 \o <<"1","0"," ","A","N","D"," ","g","a","l","_","l","a","t"," ",">"," ","-","1","0">>
 \o <<" ","\n">>
 \o <<" "," "," "," "," "," ","A","N","D"," ","e","m","_","m","i","n"," ","<"," ","1">>
 \o <<".","6","6","E","-","6"," ","A","N","D"," ","e","m","_","m","a","x"," ",">"," ">>
 \o <<"1",".","6","6","E","-","6">>

KW_SELECT == <<"S","E","L","E","C","T">>

KW_FROM == <<"F","R","O","M">>

KW_AND == <<"A","N","D">>

KW_OR == <<"O","R">>

KW_AS == <<"A","S">>
(***************************************************************************)
(* Reading a join: the derived tables of a query are its parenthesised      *)
(* subqueries, each followed by its alias; the rest is the outer query.     *)
(***************************************************************************)
\* the word of the text that starts at i
WordFrom(t, i) ==
    LET after == {j \in i..Len(t) : ~IsWordChar(t[j])}
    IN  IF after = {} THEN SubSeq(t, i, Len(t))
        ELSE SubSeq(t, i, (CHOOSE j \in after : \A k \in after : j <= k) - 1)

\* where text w occurs in text t
Occurrences(t, w) ==
    {i \in 1..(Len(t) - Len(w) + 1) : t[i] = w[1] /\ SubSeq(t, i, i + Len(w) - 1) = w}

\* the filters of a query: the predicates that the ANDs of its WHERE clause join
Filters(t) ==
    LET w    == CHOOSE p \in WordPositions(t, WHERE) : Outside(t, p)
        ands == {p \in WordPositions(t, KW_AND) : p > w /\ Outside(t, p)}
        cuts == Ascending({w + Len(WHERE) - Len(KW_AND), Len(t) + 1} \cup ands)
    IN  {Trim(SubSeq(t, cuts[k] + Len(KW_AND), cuts[k + 1] - 1)) : k \in 1..(Len(cuts) - 1)}

ReadJoin(t) ==
    LET quotes   == {q \in 1..Len(t) : t[q] = "'"}
        out(i)   == t[i] # "'" /\ Cardinality({q \in quotes : q < i}) % 2 = 0
        opens    == {j \in 1..Len(t) : t[j] = "(" /\ out(j)}
        closes   == {j \in 1..Len(t) : t[j] = ")" /\ out(j)}
        depth(i) == Cardinality({j \in opens : j < i}) - Cardinality({j \in closes : j < i})
        close(o) == LET m == {c \in closes : c > o /\ depth(c) = depth(o) + 1}
                    IN  IF m = {} THEN Len(t) + 1 ELSE CHOOSE c \in m : \A d \in m : c <= d
        \* a derived table: a parenthesis of the outer query that holds a SELECT
        derived  == {o \in opens : depth(o) = 0
                                   /\ WordAt(Trim(SubSeq(t, o + 1, close(o) - 1)), KW_SELECT, 1)}
        order    == Ascending(derived)
        aliasAt(o) == LET ink == {i \in (close(o) + 1)..Len(t) : ~IsSpace(t[i])}
                      IN  IF ink = {} THEN <<>>
                          ELSE WordFrom(t, CHOOSE i \in ink : \A k \in ink : i <= k)
        tables   == [k \in 1..Len(order) |->
                        [open  |-> order[k],
                         close |-> close(order[k]),
                         body  |-> Trim(SubSeq(t, order[k] + 1, close(order[k]) - 1)),
                         alias |-> aliasAt(order[k])]]
        aliases  == {tables[k].alias : k \in 1..Len(tables)}
        outer(i) == \A k \in 1..Len(tables) : i < tables[k].open \/ i > tables[k].close
        starts   == {i \in 1..Len(t) :
                        /\ outer(i) /\ out(i)
                        /\ IsWordChar(t[i])
                        /\ i = 1 \/ ~IsWordChar(t[i - 1])}
        keyword(w)  == UpText(w) \in {KW_SELECT, KW_FROM, WHERE, KW_AND, KW_OR, KW_AS}
        function(i) == LET e == i + Len(WordFrom(t, i)) IN e <= Len(t) /\ t[e] = "("
        \* a name of the outer query that is no number, keyword, function or alias
        columns  == {i \in starts :
                        LET w == WordFrom(t, i)
                        IN  /\ ~IsDigit(w[1])
                            /\ ~keyword(w)
                            /\ ~function(i)
                            /\ w \notin aliases}
        from     == {p \in WordPositions(t, KW_FROM) : outer(p)}
        \* the stars of the outer select list
        stars    == {i \in 1..Len(t) : t[i] = "*" /\ outer(i) /\ \A p \in from : i < p}
        qualified(i) == /\ i > 1
                        /\ t[i - 1] = "."
                        /\ \E a \in aliases : a # <<>> /\ i - 1 - Len(a) >= 1
                                              /\ WordAt(t, UpText(a), i - 1 - Len(a))
    IN  [tables      |-> tables,
         references  |-> columns \cup stars,
         unqualified |-> {i \in columns \cup stars : ~qualified(i)}]

(***************************************************************************)
(* Spatial join.                                                            *)
(***************************************************************************)
\* the join cell has run to its end: query is the join, and it was answered
JoinAnswered == pc = "wavelengths"

\* ReadJoin of the join the cell writes, read once
BuiltJoin == [t \in {JoinQuery} |-> ReadJoin(t)]

\* ReadJoin of the query the kernel holds
QueryJoin == IF query \in DOMAIN BuiltJoin THEN BuiltJoin[query] ELSE ReadJoin(query)

\* the filters that only the subquery of the J band has, and only that of the H band
OwnFiltersJ == Filters(SubqueryJ) \ Filters(SubqueryH)

OwnFiltersH == Filters(SubqueryH) \ Filters(SubqueryJ)

\* every occurrence in t of each of the filters lies between the parentheses of table tb
KeepsOwnFilters(t, filters, tb) ==
    \A f \in filters :
        /\ Occurrences(t, f) # {}
        /\ \A i \in Occurrences(t, f) : tb.open < i /\ i + Len(f) - 1 < tb.close

\* the join keeps the filters of each band in the derived table of that band
KeepsFiltersApart(t) ==
    LET r == ReadJoin(t)
    IN  /\ Len(r.tables) = 2
        /\ KeepsOwnFilters(t, OwnFiltersJ, r.tables[1])
        /\ KeepsOwnFilters(t, OwnFiltersH, r.tables[2])

\* KeepsFiltersApart of the join the cell writes, read once
BuiltJoinKeepsFilters == [t \in {JoinQuery} |-> KeepsFiltersApart(t)]

QueryKeepsFiltersApart ==
    IF query \in DOMAIN BuiltJoinKeepsFilters THEN BuiltJoinKeepsFilters[query]
    ELSE KeepsFiltersApart(query)

\* C7: in the join that is built each subquery stands unchanged, with its own filters,
\* inside its own pair of parentheses followed by its alias; a filter that only one
\* subquery has stands nowhere but in that subquery's derived table; every column and
\* star of the outer select list and join predicate is qualified by one of the two
\* aliases.
C7_JoinStructure ==
    JoinAnswered =>
        /\ Len(QueryJoin.tables) = 2
        /\ QueryJoin.tables[1].body = SubqueryJ
        /\ QueryJoin.tables[1].alias = <<"J">>
        /\ QueryJoin.tables[2].body = SubqueryH
        /\ QueryJoin.tables[2].alias = <<"H">>
        /\ OwnFiltersJ # {}
        /\ OwnFiltersH # {}
        /\ QueryKeepsFiltersApart
        /\ QueryJoin.references # {}
        /\ QueryJoin.unqualified = {}

C7_Witness ==
    /\ JoinAnswered
    /\ Len(QueryJoin.tables) = 2
    /\ Cardinality(QueryJoin.references) >= 2

\* the WHERE clause of the query by file name, up to the name
OrigfileClauseStart ==
    <<"W","H","E","R","E"," ","o","b","s","_","c","r","e","a","t","o","r","_","d","i">>
 \o <<"d"," ","="," ","'","i","v","o",":","/","/","e","s","o",".","o","r","g","/","o">>
 \o <<"r","i","g","f","i","l","e","?">>
(***************************************************************************)
(* Query by the data provider file name; submission of the built queries.   *)
(***************************************************************************)
\* the file name cell has run: query is the query built for origfile
OrigfileBuilt == pc = "cone"

\* the endpoint has received the query
Submitted(q) == \E i \in 1..Len(sent) : sent[i].query = q

\* C8: the query by file name has the WHERE clause
\* obs_creator_did = 'ivo://eso.org/origfile?<name>', the name unchanged after the fixed
\* prefix, and like every query that is built it is submitted to the endpoint before the
\* next query is built.
C8_BuiltQuerySubmitted ==
    /\ [](OrigfileBuilt => WhereClause(query) = OrigfileClauseStart \o origfile \o <<"'">>)
    /\ [][query' # query => (query = Unbound \/ Submitted(query))]_vars

(***************************************************************************)
(* Results without rows.                                                    *)
(***************************************************************************)
\* C9: a result of zero rows is a valid table and no error: no step that consumes the
\* result, the per-column display of row 0 included, ends in an error on it.
C9_EmptyResultIsNoError ==
    (res.req # 0 /\ res.nrows = 0) => err # "IndexError"

(***************************************************************************)
(* Units.  The columns em_min and em_max hold wavelengths in metres; the    *)
(* coordinates of POINT, CIRCLE and POLYGON are degrees.                    *)
(***************************************************************************)
EM_MIN == <<"E","M","_","M","I","N">>

EM_MAX == <<"E","M","_","M","A","X">>

\* where the wavelength columns stand in the text, outside its literals
WavelengthColumns(t) ==
    UNION {{<<p, Len(w)>> : p \in {i \in WordPositions(t, w) : Outside(t, i)}} :
              w \in {EM_MIN, EM_MAX}}

\* the clause that position p of the text belongs to: the last of the words SELECT,
\* FROM and WHERE before it
ClauseOf(t, p) ==
    LET marks == {i \in 1..p : /\ Up(t[i]) \in {"S", "F", "W"}
                               /\ Outside(t, i)
                               /\ \/ WordAt(t, KW_SELECT, i)
                                  \/ WordAt(t, KW_FROM, i)
                                  \/ WordAt(t, WHERE, i)}
    IN  IF marks = {} THEN "NONE"
        ELSE LET last == CHOOSE i \in marks : \A j \in marks : j <= i
             IN  IF WordAt(t, KW_SELECT, last) THEN "SELECT"
                 ELSE IF WordAt(t, KW_FROM, last) THEN "FROM" ELSE "WHERE"

\* the first position from i on that holds no white space (Len(t) + 1 when there is none)
NextInk(t, i) ==
    LET ink == {j \in i..Len(t) : ~IsSpace(t[j])}
    IN  IF ink = {} THEN Len(t) + 1 ELSE CHOOSE j \in ink : \A k \in ink : j <= k

\* the last position up to i that holds no white space (0 when there is none)
PreviousInk(t, i) ==
    LET ink == {j \in 1..i : ~IsSpace(t[j])}
    IN  IF ink = {} THEN 0 ELSE CHOOSE j \in ink : \A k \in ink : j >= k

\* the column of length n at p is multiplied or divided: a rescaling such as em_min*1E9
Rescaled(t, p, n) ==
    LET after  == NextInk(t, p + n)
        before == PreviousInk(t, p - 1)
    IN  \/ after <= Len(t) /\ t[after] \in {"*", "/"}
        \/ before >= 1 /\ t[before] \in {"*", "/"}

IsNumberChar(c) == IsDigit(c) \/ c \in {".", "E", "e", "-", "+"}

\* what the column of length n at p is compared with: the text of the number after a
\* comparison operator (<<>> when the column is not followed by a comparison with a number)
ComparedValue(t, p, n) ==
    LET op     == NextInk(t, p + n)
        isOp   == op <= Len(t) /\ t[op] \in {"<", ">", "="}
        opEnd  == IF isOp /\ op < Len(t) /\ t[op + 1] \in {"=", ">"} THEN op + 1 ELSE op
        start  == NextInk(t, opEnd + 1)
        others == {j \in start..Len(t) : ~IsNumberChar(t[j])}
        stop   == IF others = {} THEN Len(t) + 1
                  ELSE CHOOSE j \in others : \A k \in others : j <= k
    IN  IF isOp /\ start <= Len(t) THEN SubSeq(t, start, stop - 1) ELSE <<>>

\* the text is a whole number without sign
IsDigits(t) == t # <<>> /\ \A i \in 1..Len(t) : IsDigit(t[i])

\* the place of the exponent mark of a number in scientific notation (0 when it has none)
ExponentMark(t) ==
    LET marks == {i \in 1..Len(t) : t[i] \in {"E", "e"}}
    IN  IF marks = {} THEN 0 ELSE CHOOSE i \in marks : TRUE

\* the text is a number as ADQL writes it: digits, a decimal, or either with an exponent
IsNumber(t) ==
    LET e        == ExponentMark(t)
        mantissa == IF e = 0 THEN t ELSE SubSeq(t, 1, e - 1)
        exponent == IF e = 0 THEN <<"0">> ELSE SubSeq(t, e + 1, Len(t))
        digits   == IF exponent # <<>> /\ exponent[1] \in {"-", "+"}
                    THEN Tail(exponent) ELSE exponent
    IN  /\ Cardinality({i \in 1..Len(t) : t[i] \in {"E", "e"}}) <= 1
        /\ IsDigits(mantissa) \/ IsDecimal(mantissa)
        /\ IsDigits(digits)

\* the mantissa and the power of ten of a number
ParseNumber(t) ==
    LET e        == ExponentMark(t)
        mantissa == IF e = 0 THEN t ELSE SubSeq(t, 1, e - 1)
        exponent == IF e = 0 THEN <<"0">> ELSE SubSeq(t, e + 1, Len(t))
        negative == exponent[1] = "-"
        digits   == IF exponent[1] \in {"-", "+"} THEN Tail(exponent) ELSE exponent
    IN  [m |-> IF IsDecimal(mantissa) THEN ParseDecimal(mantissa)
               ELSE Num(FALSE, DigitsValue(mantissa), 0, 1),
         e |-> IF negative THEN 0 - DigitsValue(digits) ELSE DigitsValue(digits)]

\* the number is positive and below a millimetre when read as metres.  The wavelengths
\* of the J and H filters are 1.265 and 1.66 micrometres: below a millimetre in metres
\* (1.265E-6), and not below it in micrometres (1.265), nanometres (1265) or angstroms.
MetreScale(t) ==
    /\ IsNumber(t)
    /\ LET x == ParseNumber(t)
           k == x.e + 3
       IN  /\ ~x.m.neg
           /\ x.m.ip > 0 \/ x.m.num > 0
           /\ IF k <= 0 THEN x.m.ip < Pow10(0 - k)
              ELSE x.m.ip = 0 /\ x.m.num * Pow10(k) < x.m.den

\* the operands of the shape whose parenthesis opens at open, each with its place
ShapeArgs(t, open) ==
    LET quotes == {q \in open..Len(t) : t[q] = "'"}
        out(i) == t[i] # "'" /\ Cardinality({q \in quotes : q < i}) % 2 = 0
        closes == {j \in open..Len(t) : t[j] = ")" /\ out(j)}
        close  == IF closes = {} THEN Len(t) + 1
                  ELSE CHOOSE c \in closes : \A d \in closes : c <= d
        commas == {j \in (open + 1)..(close - 1) : t[j] = "," /\ out(j)}
        next(c) == LET later == {d \in commas : d > c}
                   IN  IF later = {} THEN close
                       ELSE CHOOSE d \in later : \A e \in later : d <= e
    IN  {<<1 + Cardinality({d \in commas : d <= c}), Trim(SubSeq(t, c + 1, next(c) - 1))>> :
            c \in {open} \cup commas}

\* the number is a longitude in degrees: from 0 to 360
IsLongitude(x) == ~x.neg /\ (x.ip < 360 \/ (x.ip = 360 /\ x.num = 0))

\* the number is a latitude in degrees: from -90 to 90
IsLatitude(x) == x.ip < 90 \/ (x.ip = 90 /\ x.num = 0)

\* the number is the radius of a circle on the sky in degrees: above 0, at most 180
IsRadius(x) ==
    /\ ~x.neg
    /\ x.ip > 0 \/ x.num > 0
    /\ x.ip < 180 \/ (x.ip = 180 /\ x.num = 0)

\* the shape f whose parenthesis opens at open is written as ADQL reads degrees: after the
\* coordinate system, longitudes and latitudes in turn (and the radius of a circle), each
\* a decimal in the range of its kind
ShapeInDegrees(t, f, open) ==
    LET args == ShapeArgs(t, open)
        n    == Cardinality(args)
    IN  /\ IF f = POINT THEN n = 3 ELSE IF f = CIRCLE THEN n = 4 ELSE n >= 7 /\ n % 2 = 1
        /\ \A a \in args :
              \/ a[1] = 1
              \/ /\ IsDecimal(a[2])
                 /\ LET x == ParseDecimal(a[2])
                    IN  IF f = CIRCLE /\ a[1] = 4 THEN IsRadius(x)
                        ELSE IF a[1] % 2 = 0 THEN IsLongitude(x) ELSE IsLatitude(x)

\* how the text uses units
UnitsOf(t) ==
    LET columns     == WavelengthColumns(t)
        rescaled    == {c \in columns : Rescaled(t, c[1], c[2])}
        constraints == {c \in columns : ClauseOf(t, c[1]) = "WHERE"}
        shapes      == UNION {{<<f, open>> : open \in CallsOf(t, f)} :
                                 f \in {POINT, CIRCLE, POLYGON}}
    IN  [rescalings        |-> Cardinality(rescaled),
         rescaledInSelect  |-> \A c \in rescaled : ClauseOf(t, c[1]) = "SELECT",
         constraints       |-> Cardinality(constraints),
         constraintsMetres |-> \A c \in constraints :
                                  /\ c \notin rescaled
                                  /\ MetreScale(ComparedValue(t, c[1], c[2])),
         shapes            |-> Cardinality(shapes),
         shapesInDegrees   |-> \A s \in shapes : ShapeInDegrees(t, s[1], s[2])]

\* UnitsOf of the queries that can be built, read once
BuiltUnits == [t \in BuiltQueries |-> UnitsOf(t)]

\* UnitsOf of a query
QueryUnits(t) == IF t \in BuiltQueries THEN BuiltUnits[t] ELSE UnitsOf(t)

\* C11: in every query sent to the service, every value that a constraint compares with
\* em_min or em_max is in metres, a rescaling of em_min or em_max (em_min*1E9) stands in
\* the SELECT list only and never in a WHERE constraint, and the coordinates of every
\* POINT, CIRCLE and POLYGON are degrees.
C11_Units ==
    \A i \in 1..Len(sent) :
        LET u == QueryUnits(sent[i].query)
        IN  /\ u.constraintsMetres
            /\ u.rescaledInSelect
            /\ u.shapesInDegrees

C11_Witness ==
    /\ \E i \in 1..Len(sent) :
          /\ sent[i].query = JoinQuery
          /\ QueryUnits(sent[i].query).constraints = 4
          /\ QueryUnits(sent[i].query).constraintsMetres
    /\ \E i \in 1..Len(sent) :
          /\ sent[i].query = WavelengthQuery
          /\ QueryUnits(sent[i].query).rescalings = 2
          /\ QueryUnits(sent[i].query).rescaledInSelect
    /\ \E i \in 1..Len(sent) :
          /\ sent[i].query = PolygonQuery
          /\ QueryUnits(sent[i].query).shapes = 1
          /\ QueryUnits(sent[i].query).shapesInDegrees
(***************************************************************************)
(* Requests and outcomes of a call.                                         *)
(***************************************************************************)
\* the cells where a query operation ends: the query that was built is due at the endpoint
OperationCells ==
    {"search_identifier", "origfile", "cone_search", "point", "region", "polygon",
     "join", "wavelengths", "describe"}

\* the cells that call tapobs.search
SearchCells == OperationCells \ {"origfile"}

\* the step sends exactly one request
SendsOne == Len(sent') = Len(sent) + 1 /\ SubSeq(sent', 1, Len(sent)) = sent

\* the step ends in a result table: the answer to the request it sent
EndsInTable == res'.req = Len(sent') /\ err' = "none" /\ pc' # "stopped"

\* the step ends in the error the service or the transport reported, which leaves the
\* cell uncaught
EndsInError == err' \in {"DALQueryError", "DALServiceError"} /\ pc' = "stopped" /\ res' = res

\* a step of one of the cells sends one request and ends in one outcome; every other
\* step sends nothing
OneRequestOneOutcome(cells) ==
    /\ pc \in cells => SendsOne /\ (EndsInTable # EndsInError)
    /\ pc \notin cells => sent' = sent

\* once an exception has left a cell nothing runs: no request follows a failure
NothingAfterFailure == (err # "none") => (pc = "stopped" /\ ~ENABLED Next)

\* C13: each call of a query operation sends exactly one request and ends in exactly one
\* outcome, a result table or the error of the service (query error) or of the transport;
\* after an error no further request is sent, and the error reaches the caller.
C13_OneRequestOneOutcome ==
    /\ []NothingAfterFailure
    /\ [][OneRequestOneOutcome(OperationCells)]_vars

\* C13 for the cells that call tapobs.search: each sends exactly one request and ends in
\* exactly one outcome, and no request follows a failure.
C13_SearchSendsOnce ==
    /\ []NothingAfterFailure
    /\ [][OneRequestOneOutcome(SearchCells)]_vars

(***************************************************************************)
(* State between calls.                                                     *)
(***************************************************************************)
\* the cells where a query operation begins
OperationStarts ==
    {"identifier", "origfile", "cone", "point", "region", "polygon", "join",
     "wavelengths", "describe"}

\* no operation changes the endpoint once the service object is made
EndpointFixed == pc # "setup" => tapobs = ESO_TAP_OBS

\* where an operation begins nothing is left of the calls before it: no query, no result
NothingLeftBehind == pc \in OperationStarts => (query = Unbound /\ res = NoResult)

\* the result that is held answers the query that is held
ResultOfOwnQuery == res.req # 0 => sent[res.req].query = query

\* the cells that display a result read the answer to the request of their own call: the
\* column display that of the query by dp_id, the plot that of the cone search
DisplaysOwnResult ==
    /\ pc = "display_columns" =>
          res.req = Len(sent) /\ sent[res.req].query = IdentifierQuery(dp_id)
    /\ pc = "plot" =>
          res.req = Len(sent) /\ sent[res.req].query = ConeQuery(pos.ra, pos.dec, sr)

\* C14: no state is shared between calls: the endpoint is all that is held and no
\* operation changes it, nothing of an earlier call (its query, its result) is left where
\* the next call begins, the result a call leaves is the answer to its own query, and
\* every cell that displays a result reads the result of the call it belongs to.
C14_NoSharedState ==
    /\ EndpointFixed
    /\ NothingLeftBehind
    /\ ResultOfOwnQuery
    /\ DisplaysOwnResult

(***************************************************************************)
(* Concurrent callers.  Each caller runs the statements of the cone search  *)
(* (the cells of lines 265-291) for a target of its own, in the one kernel  *)
(* namespace: pos, sr, query and res are the module-level names that the    *)
(* statements assign and read.  Here pc and err hold one entry per caller.  *)
(* A statement is one step; tapobs.search is two, the request going out and *)
(* the answer coming back, since the call waits for the service.            *)
(***************************************************************************)
\* callers that search at the same time
NumCallers == 2

Callers == 1..NumCallers

\* the targets the callers search for: position (degrees) and radius (degrees)
CallerTargets ==
    << <<Num(FALSE, 185, 583, 1000), Num(FALSE, 13, 93, 1000), Num(FALSE, 0, 1, 24)>>,
       <<Num(FALSE, 185, 1, 2), Num(FALSE, 10, 0, 1), Num(FALSE, 0, 1, 2)>>,
       <<Num(FALSE, 185, 583, 1000), Num(TRUE, 0, 4619, 10000), Num(FALSE, 0, 417, 10000)>> >>

\* the target of caller c
TargetOf(c) == CallerTargets[((c - 1) % Len(CallerTargets)) + 1]

\* the request that caller c sent (0 before it has sent one)
OwnRequest(c) ==
    IF \E i \in 1..Len(sent) : sent[i].by = c
    THEN CHOOSE i \in 1..Len(sent) : sent[i].by = c
    ELSE 0

\* the service object exists; every caller is about to run the cone search
InitConcurrent ==
    /\ pc = [c \in Callers |-> "resolve"]
    /\ tapobs = ESO_TAP_OBS
    /\ dp_id = Unbound
    /\ origfile = Unbound
    /\ ivorn = Unbound
    /\ pos = [ra |-> NoNumber, dec |-> NoNumber]
    /\ sr = NoNumber
    /\ query = Unbound
    /\ res = NoResult
    /\ err = [c \in Callers |-> "none"]
    /\ sent = <<>>

\* caller c goes on to the statement at
Goto(c, at) == pc' = [pc EXCEPT ![c] = at] /\ err' = err

\* an exception ends the call of caller c
Fail(c, e) == pc' = [pc EXCEPT ![c] = "failed"] /\ err' = [err EXCEPT ![c] = e]

\* pos = SkyCoord.from_name(target)
CallerResolve(c) ==
    /\ pc[c] = "resolve"
    /\ \/ /\ pos' = [ra |-> TargetOf(c)[1], dec |-> TargetOf(c)[2]]
          /\ Goto(c, "radius")
       \/ /\ pos' = pos
          /\ Fail(c, "NameResolveError")
    /\ UNCHANGED <<tapobs, dp_id, origfile, ivorn, sr, query, res, sent>>

\* sr = ...
CallerRadius(c) ==
    /\ pc[c] = "radius"
    /\ sr' = TargetOf(c)[3]
    /\ Goto(c, "format")
    /\ UNCHANGED <<tapobs, dp_id, origfile, ivorn, pos, query, res, sent>>

\* query = """...""" % (pos.ra.degree, pos.dec.degree, sr); print(query)
CallerFormat(c) ==
    /\ pc[c] = "format"
    /\ query' = ConeQuery(pos.ra, pos.dec, sr)
    /\ Goto(c, "search")
    /\ UNCHANGED <<tapobs, dp_id, origfile, ivorn, pos, sr, res, sent>>

\* tapobs.search(query=query, maxrec=1000): the request goes out with the query that the
\* name query holds now
CallerSend(c) ==
    /\ pc[c] = "search"
    /\ sent' = Append(sent, [url |-> tapobs, query |-> query,
                             maxrec |-> <<MaxrecCone>>, by |-> c])
    /\ Goto(c, "await")
    /\ UNCHANGED <<tapobs, dp_id, origfile, ivorn, pos, sr, query, res>>

\* res = <the table of the answer>, or the error of the service or the transport
CallerReceive(c) ==
    /\ pc[c] = "await"
    /\ \/ \E n \in RowCounts(<<MaxrecCone>>) :
             /\ res' = [req |-> OwnRequest(c), nrows |-> n]
             /\ Goto(c, "display")
       \/ \E e \in {"DALQueryError", "DALServiceError"} :
             /\ res' = res
             /\ Fail(c, e)
    /\ UNCHANGED <<tapobs, dp_id, origfile, ivorn, pos, sr, query, sent>>

\* print("Num matching datasets: %d" % (len(res))): reads the name res
CallerDisplay(c) ==
    /\ pc[c] = "display"
    /\ Goto(c, "done")
    /\ UNCHANGED <<tapobs, dp_id, origfile, ivorn, pos, sr, query, res, sent>>

NextConcurrent ==
    \/ \E c \in Callers : CallerResolve(c)
    \/ \E c \in Callers : CallerRadius(c)
    \/ \E c \in Callers : CallerFormat(c)
    \/ \E c \in Callers : CallerSend(c)
    \/ \E c \in Callers : CallerReceive(c)
    \/ \E c \in Callers : CallerDisplay(c)

SpecConcurrent == InitConcurrent /\ [][NextConcurrent]_vars

\* the cone search query for the target of caller c
OwnQuery(c) == ConeQuery(TargetOf(c)[1], TargetOf(c)[2], TargetOf(c)[3])

\* every request carries the query built from the arguments of the caller that sent it
SubmitsOwnQuery == \A i \in 1..Len(sent) : sent[i].query = OwnQuery(sent[i].by)

\* the result a caller is about to display is the answer to its own request
ReceivesOwnResult == \A c \in Callers : pc[c] = "display" => res.req = OwnRequest(c)

\* C15: when several callers search at the same time, under every interleaving each call
\* submits exactly the query built from its own arguments and displays the result of its
\* own request: no call observes or overwrites the query or the result of another.
C15_CallsDoNotInterfere == SubmitsOwnQuery /\ ReceivesOwnResult

====
